---- MODULE Spec2Model ----
(***************************************************************************)
(* objsync: a distributed mutex on top of an object store's conditional    *)
(* write.  The model follows src/mutex.go (Mutex.Lock, Mutex.TryLock,      *)
(* Mutex.Unlock), the two storage adapters (src/provider/s3/s3.go and the  *)
(* GCS adapter, src/unnamed/part_001) and the retry loop that Lock and     *)
(* Unlock hand their work to (retry.Do with retry.Context and              *)
(* retry.Attempts(0), src/mutex.go:55-72 and 83-115).                      *)
(*                                                                         *)
(* One AtomicUpdateObject call is not atomic: it is a read, the transform  *)
(* and a conditional write.  For GCS the read is two requests (obj.Attrs   *)
(* for generation and tag, obj.NewReader for the bytes) and the write is   *)
(* followed by another obj.Attrs.  Each request is one step of the calling *)
(* handle, so that other handles' steps and the clock interleave exactly   *)
(* where the network round trips are.                                      *)
(***************************************************************************)
EXTENDS Integers, Sequences, FiniteSets, TLC

\* ------------------------------------------------------------------ bounds
NumHandles == 2      \* Mutex handles contending for the one key
MaxTime == 2         \* the wall clock runs 0..MaxTime
MaxLease == 1        \* lease lengths 1..MaxLease
MaxWrites == 4       \* committed writes to the object

Handles == 1..NumHandles
Leases == 1..MaxLease

\* --------------------------------------------------------------- constants
NoID == 0            \* mutexContent.ID == "" (omitted from the JSON)
NoTime == -1         \* mutexContent.Expires == nil (omitted from the JSON)
NoETag == 0          \* the empty ETag "", also Mutex.etag of a handle that holds nothing
NoToken == -1        \* the token TryLock and Lock return when they do not acquire

S3 == "s3"
GCS == "gcs"
Providers == {S3, GCS}

\* errors
Nil == "nil"
ErrConflict == "ErrConflict"        \* provider.ErrConflict
ErrLockHeld == "errLockHeld"        \* errLockHeld of TryLock
ErrDecode == "ErrDecode"            \* json.Unmarshal's error
ErrAdapter == "ErrAdapter"          \* any other error of the storage adapter
ErrCanceled == "ErrCanceled"        \* ctx.Err()

\* ---------------------------------------------------------- the JSON bytes
\* Bytes are a sequence of <<key, value>> tokens.  A JSON object opens with
\* the token <<"{", 0>>: "{}" is not the empty byte string.
Open == <<"{", 0>>
EmptyBytes == <<>>
SeedBytes == <<Open>>                 \* "{}"
CorruptBytes == <<<<"?", 0>>>>        \* bytes that are no JSON object

ZeroContent == [ID |-> NoID, Expires |-> NoTime, Fence |-> 0]

\* json.Marshal(content) with the omitempty tags of mutexContent.
Marshal(c) ==
    <<Open>>
    \o (IF c.ID # NoID THEN <<<<"id", c.ID>>>> ELSE <<>>)
    \o (IF c.Expires # NoTime THEN <<<<"expires", c.Expires>>>> ELSE <<>>)
    \o (IF c.Fence # 0 THEN <<<<"fence", c.Fence>>>> ELSE <<>>)

\* The value of field k in the bytes b, or d when the field is absent.
RECURSIVE Field(_, _, _)
Field(b, k, d) ==
    IF b = <<>> THEN d
    ELSE IF Head(b)[1] = k THEN Head(b)[2]
    ELSE Field(Tail(b), k, d)

\* Mutant of Decodable: json.Unmarshal takes any bytes.
DecodableAnything(b) == Len(b) > 0

\* Whether json.Unmarshal(b, &content) succeeds.
Decodable(b) == Len(b) > 0 /\ Head(b) = Open

\* json.Unmarshal(b, &content) into a zero-valued content: absent fields stay zero.
Unmarshal(b) ==
    [ID |-> Field(b, "id", NoID),
     Expires |-> Field(b, "expires", NoTime),
     Fence |-> Field(b, "fence", 0)]

\* ------------------------------------------------------------ the transforms
\* Mutant of Held: the lease ends before the instant expires.
HeldBeforeExpiry(c, t) == c.Expires # NoTime /\ t < c.Expires

\* Mutant of Held: a record that carries an expiry is held whatever the time.
HeldForever(c, t) == c.Expires # NoTime

\* !time.Now().After(*content.Expires): the lease of a record that carries an
\* expiry runs up to and including the instant expires.
Held(c, t) == c.Expires # NoTime /\ ~(t > c.Expires)

\* Mutant of TryLockFn: a record that names the caller is not held against it.
TryLockFnReentrant(id, currentData, t, length) ==
    LET content == IF Len(currentData) > 0 THEN Unmarshal(currentData) ELSE ZeroContent
        new == [ID |-> id, Expires |-> t + length, Fence |-> content.Fence + 1]
    IN  IF Len(currentData) > 0 /\ ~Decodable(currentData)
          THEN [err |-> ErrDecode, data |-> EmptyBytes, token |-> 0]
        ELSE IF Len(currentData) > 0 /\ Held(content, t) /\ content.ID # id
          THEN [err |-> ErrLockHeld, data |-> EmptyBytes, token |-> 0]
        ELSE [err |-> Nil, data |-> Marshal(new), token |-> new.Fence]

\* The transform TryLock hands to AtomicUpdateObject, run at time t by the
\* handle with identity id for a lease of length: the error it returns, the
\* bytes to write and the fencing token it captures.
TryLockFn(id, currentData, t, length) ==
    LET content == IF Len(currentData) > 0 THEN Unmarshal(currentData) ELSE ZeroContent
        new == [ID |-> id, Expires |-> t + length, Fence |-> content.Fence + 1]
    IN  IF Len(currentData) > 0 /\ ~Decodable(currentData)
          THEN [err |-> ErrDecode, data |-> EmptyBytes, token |-> 0]
        ELSE IF Len(currentData) > 0 /\ Held(content, t)
          THEN [err |-> ErrLockHeld, data |-> EmptyBytes, token |-> 0]
        ELSE [err |-> Nil, data |-> Marshal(new), token |-> new.Fence]

\* Mutant of UnlockFn: the release clears the holder and leaves the expiry.
UnlockFnKeepsExpires(muETag, currentETag, currentData) ==
    LET content == IF Len(currentData) > 0 THEN Unmarshal(currentData) ELSE ZeroContent
        cleared == [content EXCEPT !.ID = NoID]
    IN  IF currentETag # muETag
          THEN [err |-> ErrConflict, data |-> EmptyBytes, token |-> 0]
        ELSE IF Len(currentData) > 0 /\ ~Decodable(currentData)
          THEN [err |-> ErrDecode, data |-> EmptyBytes, token |-> 0]
        ELSE [err |-> Nil, data |-> Marshal(cleared), token |-> 0]

\* Mutant of UnlockFn: the released record starts over from the zero record.
UnlockFnResetsFence(muETag, currentETag, currentData) ==
    IF currentETag # muETag
      THEN [err |-> ErrConflict, data |-> EmptyBytes, token |-> 0]
    ELSE IF Len(currentData) > 0 /\ ~Decodable(currentData)
      THEN [err |-> ErrDecode, data |-> EmptyBytes, token |-> 0]
    ELSE [err |-> Nil, data |-> Marshal(ZeroContent), token |-> 0]

\* The transform Unlock hands to AtomicUpdateObject, for a handle whose
\* stored tag is muETag.
UnlockFn(muETag, currentETag, currentData) ==
    LET content == IF Len(currentData) > 0 THEN Unmarshal(currentData) ELSE ZeroContent
        cleared == [content EXCEPT !.ID = NoID, !.Expires = NoTime]
    IN  IF currentETag # muETag
          THEN [err |-> ErrConflict, data |-> EmptyBytes, token |-> 0]
        ELSE IF Len(currentData) > 0 /\ ~Decodable(currentData)
          THEN [err |-> ErrDecode, data |-> EmptyBytes, token |-> 0]
        ELSE [err |-> Nil, data |-> Marshal(cleared), token |-> 0]

\* ------------------------------------------------------------------- state
VARIABLES
    now,        \* the wall clock, time.Now()
    provider,   \* the storage adapter the handles were built on
    obj,        \* the stored object: [exists, data, ver]; its ETag is ver
    pc,         \* per handle: where its current call stands
    op,         \* per handle: the call in progress ("none" between calls)
    etag,       \* per handle: Mutex.etag
    length,     \* per handle: the lease length of the call in progress
    curTag,     \* per handle: currentETag, as the adapter read it
    buf,        \* per handle: currentData after the read, newData after the transform
    tok,        \* per handle: newFencingToken
    cancelled,  \* per handle: the caller's ctx is done
    ret,        \* per handle: what its last call returned
    lease,      \* per handle: the expiry its last successful acquisition wrote, from
                \* the return of that acquisition to the handle's next Unlock call
    nput,       \* per handle: writes its current (or last) call has committed
    readErr,    \* per handle: the read of its current (or last) attempt failed, for
                \* another reason than "no such object"
    last        \* the token of the last acquisition write the store has committed

vars == <<now, provider, obj, pc, op, etag, length, curTag, buf, tok,
          cancelled, ret, lease, nput, readErr, last>>

Absent == [exists |-> FALSE, data |-> EmptyBytes, ver |-> 0]
Seeded == [exists |-> TRUE, data |-> SeedBytes, ver |-> 1]

\* What a call returned: the call, (acquired, token, err) as the caller sees
\* them, and cause, the error AtomicUpdateObject handed to the call.
NoRet == [op |-> "none", ok |-> FALSE, token |-> NoToken, err |-> Nil, cause |-> Nil]

\* NewMutex, once per handle, on a key that is absent or seeded with "{}"
\* (mutex_test.go:40-42).
Init ==
    /\ now = 0
    /\ provider \in Providers
    /\ obj \in {Absent, Seeded}
    /\ pc = [h \in Handles |-> "idle"]
    /\ op = [h \in Handles |-> "none"]
    /\ etag = [h \in Handles |-> NoETag]
    /\ length = [h \in Handles |-> 0]
    /\ curTag = [h \in Handles |-> NoETag]
    /\ buf = [h \in Handles |-> EmptyBytes]
    /\ tok = [h \in Handles |-> 0]
    /\ cancelled = [h \in Handles |-> FALSE]
    /\ ret = [h \in Handles |-> NoRet]
    /\ lease = [h \in Handles |-> NoTime]
    /\ nput = [h \in Handles |-> 0]
    /\ readErr = [h \in Handles |-> FALSE]
    /\ last = 0

\* ------------------------------------------------------- the storage adapter
\* What a successful read hands the transform: the tag and the bytes of the
\* object, or the empty tag and no bytes when there is no object (NoSuchKey,
\* storage.ErrObjectNotExist).
ReadTag(o) == IF o.exists THEN o.ver ELSE NoETag
ReadData(o) == IF o.exists THEN o.data ELSE EmptyBytes

\* The outcome of the conditional write of an adapter that read the tag tag:
\* Nil when the store takes the write.  S3 sends If-Match only for a
\* non-empty tag, so its write after reading no object is unconditional; GCS
\* asks for GenerationMatch: tag, and the client library refuses the all-zero
\* Conditions of tag 0 ("empty conditions") before anything is sent.
PutOutcome(prov, o, tag) ==
    IF prov = S3
      THEN IF tag = NoETag THEN Nil
           ELSE IF o.exists /\ o.ver = tag THEN Nil ELSE ErrConflict
      ELSE IF tag = NoETag THEN ErrAdapter
           ELSE IF o.exists /\ o.ver = tag THEN Nil ELSE ErrConflict

\* The object after a write of data: a new revision with a new tag.
Written(o, data) == [exists |-> TRUE, data |-> data, ver |-> o.ver + 1]

\* Whether handle h believes it holds the lock: it is between the return of a
\* successful Lock or TryLock and its own next call of Unlock.
Believes(h) == lease[h] # NoTime

\* ----------------------------------------------------- what the calls return
\* Mutant of TryLockResult: errLockHeld is not recognised and surfaces.
TryLockResultLockHeldFatal(err, token) ==
    IF err = Nil THEN [ok |-> TRUE, token |-> token, err |-> Nil]
    ELSE IF err = ErrConflict
      THEN [ok |-> FALSE, token |-> NoToken, err |-> Nil]
    ELSE [ok |-> FALSE, token |-> NoToken, err |-> err]

\* TryLock's mapping of AtomicUpdateObject's error to (acquired, token, err).
TryLockResult(err, token) ==
    IF err = Nil THEN [ok |-> TRUE, token |-> token, err |-> Nil]
    ELSE IF err \in {ErrLockHeld, ErrConflict}
      THEN [ok |-> FALSE, token |-> NoToken, err |-> Nil]
    ELSE [ok |-> FALSE, token |-> NoToken, err |-> err]

\* Mutant of UnlockResult: ErrConflict is not swallowed.
UnlockResultConflictFatal(err) == err

\* Unlock's mapping of AtomicUpdateObject's error to the error it returns.
UnlockResult(err) == IF err \in {Nil, ErrConflict} THEN Nil ELSE err

\* Mutant of Retries: the loop goes on after any attempt that did not acquire.
RetriesOnError(r) == ~r.ok

\* Whether Lock's retry loop goes on after an attempt with result r.
Retries(r) == ~r.ok /\ r.err = Nil

\* The call of handle h returns r to the caller, its locals dropped.
Return(h, r) ==
    /\ pc' = [pc EXCEPT ![h] = "done"]
    /\ ret' = [ret EXCEPT ![h] = [op |-> op[h]] @@ r]
    /\ op' = [op EXCEPT ![h] = "none"]
    /\ length' = [length EXCEPT ![h] = 0]
    /\ curTag' = [curTag EXCEPT ![h] = NoETag]
    /\ buf' = [buf EXCEPT ![h] = EmptyBytes]
    /\ tok' = [tok EXCEPT ![h] = 0]

\* Mutant of Finish: Unlock hands its errors to retry.Do as recoverable, and
\* the loop makes another attempt.
FinishUnlockRetries(h, newETag, err) ==
    IF op[h] = "Unlock" /\ UnlockResult(err) # Nil
      THEN /\ pc' = [pc EXCEPT ![h] = "read"]
           /\ curTag' = [curTag EXCEPT ![h] = NoETag]
           /\ buf' = [buf EXCEPT ![h] = EmptyBytes]
           /\ UNCHANGED <<op, etag, length, tok, ret, lease>>
    ELSE IF op[h] = "Unlock"
      THEN /\ etag' = [etag EXCEPT ![h] = NoETag]
           /\ Return(h, [ok |-> FALSE, token |-> NoToken, err |-> Nil, cause |-> err])
           /\ UNCHANGED lease
      ELSE LET r == TryLockResult(err, tok[h]) IN
           /\ etag' = [etag EXCEPT ![h] = IF r.ok THEN newETag ELSE @]
           /\ lease' = [lease EXCEPT ![h] = IF r.ok THEN Unmarshal(buf[h]).Expires ELSE @]
           /\ IF op[h] = "Lock" /\ Retries(r)
                THEN /\ pc' = [pc EXCEPT ![h] = "backoff"]
                     /\ ret' = [ret EXCEPT ![h] = [op |-> "TryLock", cause |-> err] @@ r]
                     /\ curTag' = [curTag EXCEPT ![h] = NoETag]
                     /\ buf' = [buf EXCEPT ![h] = EmptyBytes]
                     /\ tok' = [tok EXCEPT ![h] = 0]
                     /\ UNCHANGED <<op, length>>
                ELSE Return(h, [cause |-> err] @@ r)

\* AtomicUpdateObject returns (newETag, err) to the call of handle h, which
\* wrote the bytes buf[h] if err is Nil.  Within Lock, an attempt that the
\* loop retries leaves TryLock's result in ret and goes to the backoff.
Finish(h, newETag, err) ==
    IF op[h] = "Unlock"
      THEN /\ etag' = [etag EXCEPT ![h] = IF UnlockResult(err) = Nil THEN NoETag ELSE @]
           /\ Return(h, [ok |-> FALSE, token |-> NoToken, err |-> UnlockResult(err),
                         cause |-> err])
           /\ UNCHANGED lease
      ELSE LET r == TryLockResult(err, tok[h]) IN
           /\ etag' = [etag EXCEPT ![h] = IF r.ok THEN newETag ELSE @]
           /\ lease' = [lease EXCEPT ![h] = IF r.ok THEN Unmarshal(buf[h]).Expires ELSE @]
           /\ IF op[h] = "Lock" /\ Retries(r)
                THEN /\ pc' = [pc EXCEPT ![h] = "backoff"]
                     /\ ret' = [ret EXCEPT ![h] = [op |-> "TryLock", cause |-> err] @@ r]
                     /\ curTag' = [curTag EXCEPT ![h] = NoETag]
                     /\ buf' = [buf EXCEPT ![h] = EmptyBytes]
                     /\ tok' = [tok EXCEPT ![h] = 0]
                     /\ UNCHANGED <<op, length>>
                ELSE Return(h, [cause |-> err] @@ r)

\* ------------------------------------------------------------------ actions
\* mu.TryLock(ctx, l): straight into AtomicUpdateObject.  (A ctx that is
\* done already is Cancel before the read.)
CallTryLock(h, l) ==
    /\ pc[h] = "idle"
    /\ op' = [op EXCEPT ![h] = "TryLock"]
    /\ length' = [length EXCEPT ![h] = l]
    /\ pc' = [pc EXCEPT ![h] = "read"]
    /\ UNCHANGED <<readErr, now, provider, obj, etag, curTag, buf, tok, ret, cancelled, nput,
                   lease, last>>

\* mu.Lock(ctx, l): retry.Do returns ctx.Err() at once when ctx is done, and
\* runs the first attempt otherwise.
CallLock(h, l, c) ==
    /\ pc[h] = "idle"
    /\ nput' = [nput EXCEPT ![h] = 0]
    /\ cancelled' = [cancelled EXCEPT ![h] = c]
    /\ IF c
         THEN /\ pc' = [pc EXCEPT ![h] = "done"]
              /\ ret' = [ret EXCEPT ![h] = [op |-> "Lock", ok |-> FALSE, token |-> NoToken,
                                            err |-> ErrCanceled, cause |-> Nil]]
              /\ UNCHANGED <<op, length>>
         ELSE /\ pc' = [pc EXCEPT ![h] = "read"]
              /\ op' = [op EXCEPT ![h] = "Lock"]
              /\ length' = [length EXCEPT ![h] = l]
              /\ ret' = ret
    /\ UNCHANGED <<readErr, now, provider, obj, etag, curTag, buf, tok,
                   lease, last>>

\* Mutant of CallUnlock: no early return for a handle without a tag.
CallUnlockNoTagCheck(h, c) ==
    /\ pc[h] = "idle"
    /\ nput' = [nput EXCEPT ![h] = 0]
    /\ cancelled' = [cancelled EXCEPT ![h] = c]
    /\ lease' = [lease EXCEPT ![h] = NoTime]
    /\ IF c
         THEN /\ pc' = [pc EXCEPT ![h] = "done"]
              /\ ret' = [ret EXCEPT ![h] =
                    [op |-> "Unlock", ok |-> FALSE, token |-> NoToken,
                     err |-> ErrCanceled, cause |-> Nil]]
              /\ op' = op
         ELSE /\ pc' = [pc EXCEPT ![h] = "read"]
              /\ op' = [op EXCEPT ![h] = "Unlock"]
              /\ ret' = ret
    /\ UNCHANGED <<readErr, now, provider, obj, etag, length, curTag, buf, tok, last>>

\* mu.Unlock(ctx): nothing to do without a tag; otherwise retry.Do, which
\* returns ctx.Err() at once when ctx is done.
CallUnlock(h, c) ==
    /\ pc[h] = "idle"
    /\ nput' = [nput EXCEPT ![h] = 0]
    /\ cancelled' = [cancelled EXCEPT ![h] = c]
    /\ lease' = [lease EXCEPT ![h] = NoTime]
    /\ IF etag[h] = NoETag \/ c
         THEN /\ pc' = [pc EXCEPT ![h] = "done"]
              /\ ret' = [ret EXCEPT ![h] =
                    [op |-> "Unlock", ok |-> FALSE, token |-> NoToken,
                     err |-> IF etag[h] = NoETag THEN Nil ELSE ErrCanceled,
                     cause |-> Nil]]
              /\ op' = op
         ELSE /\ pc' = [pc EXCEPT ![h] = "read"]
              /\ op' = [op EXCEPT ![h] = "Unlock"]
              /\ ret' = ret
    /\ UNCHANGED <<readErr, now, provider, obj, etag, length, curTag, buf, tok, last>>

\* The caller's ctx is cancelled while Lock runs.  (For TryLock and Unlock a
\* ctx cancelled on the way is an adapter call that fails: ReadFails,
\* ReadSwallowed, PutFails, AttrsFails.)
Cancel(h) ==
    /\ op[h] = "Lock"
    /\ ~cancelled[h]
    /\ cancelled' = [cancelled EXCEPT ![h] = TRUE]
    /\ UNCHANGED <<readErr, now, provider, obj, pc, op, etag, length, curTag, buf,
                   tok, ret, lease, nput, last>>

\* The transform of the call in progress, on the tag and bytes handed to it.
Transform(h, currentETag, currentData) ==
    IF op[h] = "Unlock"
      THEN UnlockFn(etag[h], currentETag, currentData)
      ELSE TryLockFn(h, currentData, now, length[h])

\* fn(currentETag, currentData), run as soon as the read has answered: an
\* error ends AtomicUpdateObject with no write; otherwise the new bytes go
\* to the write.
Fn(h, currentETag, currentData) ==
    LET r == Transform(h, currentETag, currentData) IN
    IF r.err # Nil
      THEN Finish(h, NoETag, r.err)
      ELSE /\ curTag' = [curTag EXCEPT ![h] = currentETag]
           /\ buf' = [buf EXCEPT ![h] = r.data]
           /\ tok' = [tok EXCEPT ![h] = r.token]
           /\ pc' = [pc EXCEPT ![h] = "put"]
           /\ UNCHANGED <<op, etag, length, ret, lease>>

\* GCS only: obj.Attrs before the read answers with the generation and the
\* tag of the revision that is current now (or with "no such object").
ReadAttrs(h) ==
    /\ pc[h] = "read"
    /\ provider = GCS
    /\ ~cancelled[h]
    /\ curTag' = [curTag EXCEPT ![h] = ReadTag(obj)]
    /\ pc' = [pc EXCEPT ![h] = "body"]
    /\ readErr' = [readErr EXCEPT ![h] = FALSE]
    /\ UNCHANGED <<now, provider, obj, op, etag, length, buf, tok, cancelled,
                   ret, lease, nput, last>>

\* The tag that the read of h's call hands to the transform: for S3 the tag
\* that comes with the bytes, for GCS the one obj.Attrs has answered.
TagRead(h) == IF provider = GCS THEN curTag[h] ELSE ReadTag(obj)

\* The bytes of the object arrive (or "no such object"), and the transform
\* runs on them: for S3 the one GetObject request, for GCS obj.NewReader,
\* which reads the revision that is current now.
Read(h) ==
    /\ pc[h] = (IF provider = GCS THEN "body" ELSE "read")
    /\ ~cancelled[h]
    /\ Fn(h, TagRead(h), ReadData(obj))
    /\ readErr' = [readErr EXCEPT ![h] = FALSE]
    /\ UNCHANGED <<now, provider, obj, cancelled, nput, last>>

\* The read fails with an error the adapter returns: for S3 an API error
\* other than NoSuchKey, for GCS any error other than ErrObjectNotExist
\* from obj.Attrs or obj.NewReader (the error of a done ctx among them).
\* The transform does not run.
ReadFails(h) ==
    /\ pc[h] \in {"read", "body"}
    /\ \/ provider = GCS /\ cancelled[h] /\ Finish(h, NoETag, ErrCanceled)
       \/ ~cancelled[h] /\ Finish(h, NoETag, ErrAdapter)
    /\ readErr' = [readErr EXCEPT ![h] = TRUE]
    /\ UNCHANGED <<now, provider, obj, cancelled, nput, last>>

\* The S3 read fails with an error that is no smithy.APIError because the
\* transport failed: s3.go:63-68 returns nothing, getResp is nil, and the
\* transform runs on the empty tag and no bytes.
ReadSwallowed(h) ==
    /\ pc[h] = "read"
    /\ provider = S3
    /\ ~cancelled[h]
    /\ Fn(h, NoETag, EmptyBytes)
    /\ readErr' = [readErr EXCEPT ![h] = TRUE]
    /\ UNCHANGED <<now, provider, obj, cancelled, nput, last>>

\* The S3 read fails because ctx is done, which is no smithy.APIError either:
\* the transform runs on the empty tag and no bytes (and the write, with the
\* same ctx, fails: PutFails).
ReadCancelled(h) ==
    /\ pc[h] = "read"
    /\ provider = S3
    /\ cancelled[h]
    /\ Fn(h, NoETag, EmptyBytes)
    /\ readErr' = [readErr EXCEPT ![h] = TRUE]
    /\ UNCHANGED <<now, provider, obj, cancelled, nput, last>>

\* The conditional write reaches the store, which takes it or answers 412.
Put(h) ==
    /\ pc[h] = "put"
    /\ ~cancelled[h]
    /\ LET e == PutOutcome(provider, obj, curTag[h]) IN
         IF e = Nil
           THEN /\ obj.ver < MaxWrites
                /\ obj' = Written(obj, buf[h])
                /\ nput' = [nput EXCEPT ![h] = @ + 1]
                /\ last' = IF op[h] = "Unlock" THEN last ELSE tok[h]
                /\ IF provider = S3
                     THEN Finish(h, obj'.ver, Nil)
                     ELSE /\ pc' = [pc EXCEPT ![h] = "attrs"]
                          /\ UNCHANGED <<op, etag, length, curTag, buf, tok, ret,
                                         lease>>
           ELSE /\ Finish(h, NoETag, e)
                /\ UNCHANGED <<obj, nput, last>>
    /\ UNCHANGED <<readErr, now, provider, cancelled>>

\* The write fails with another error (the transport, a done ctx): nothing
\* is written.
PutFails(h) ==
    /\ pc[h] = "put"
    /\ Finish(h, NoETag, IF cancelled[h] THEN ErrCanceled ELSE ErrAdapter)
    /\ UNCHANGED <<readErr, now, provider, obj, cancelled, nput, last>>

\* GCS only: obj.Attrs after the write returns the tag the object has now.
Attrs(h) ==
    /\ pc[h] = "attrs"
    /\ ~cancelled[h]
    /\ Finish(h, ReadTag(obj), Nil)
    /\ UNCHANGED <<readErr, now, provider, obj, cancelled, nput, last>>

\* GCS only: obj.Attrs after the write fails.
AttrsFails(h) ==
    /\ pc[h] = "attrs"
    /\ Finish(h, NoETag, IF cancelled[h] THEN ErrCanceled ELSE ErrAdapter)
    /\ UNCHANGED <<readErr, now, provider, obj, cancelled, nput, last>>

\* Mutant of Retry: the loop does not watch ctx during the backoff.
RetryIgnoresCtx(h) ==
    /\ pc[h] = "backoff"
    /\ pc' = [pc EXCEPT ![h] = "read"]
    /\ ret' = [ret EXCEPT ![h] = NoRet]
    /\ readErr' = [readErr EXCEPT ![h] = FALSE]
    /\ UNCHANGED <<now, provider, obj, op, etag, length, curTag, buf, tok,
                   cancelled, lease, nput, last>>

\* Lock's retry loop: the backoff timer fires before ctx is done, and the
\* next attempt starts.
Retry(h) ==
    /\ pc[h] = "backoff"
    /\ ~cancelled[h]
    /\ pc' = [pc EXCEPT ![h] = "read"]
    /\ ret' = [ret EXCEPT ![h] = NoRet]
    /\ readErr' = [readErr EXCEPT ![h] = FALSE]
    /\ UNCHANGED <<now, provider, obj, op, etag, length, curTag, buf, tok,
                   cancelled, lease, nput, last>>

\* Lock's retry loop: ctx is done during the backoff, Lock returns ctx.Err()
\* (cause keeps the error of the last attempt).
LockCancelled(h) ==
    /\ pc[h] = "backoff"
    /\ cancelled[h]
    /\ Return(h, [ok |-> FALSE, token |-> NoToken, err |-> ErrCanceled,
                  cause |-> ret[h].cause])
    /\ UNCHANGED <<readErr, now, provider, obj, etag, cancelled, lease,
                   nput, last>>

\* The caller has taken the result of the call; the handle is free for the
\* next call.
Ack(h) ==
    /\ pc[h] = "done"
    /\ pc' = [pc EXCEPT ![h] = "idle"]
    /\ ret' = [ret EXCEPT ![h] = NoRet]
    /\ nput' = [nput EXCEPT ![h] = 0]
    /\ cancelled' = [cancelled EXCEPT ![h] = FALSE]
    /\ readErr' = [readErr EXCEPT ![h] = FALSE]
    /\ UNCHANGED <<now, provider, obj, op, etag, length, curTag, buf, tok,
                   lease, last>>

\* The wall clock advances.
Tick ==
    /\ now < MaxTime
    /\ now' = now + 1
    /\ UNCHANGED <<readErr, provider, obj, pc, op, etag, length, curTag, buf, tok,
                   cancelled, ret, lease, nput, last>>

Next ==
    \/ \E h \in Handles, l \in Leases : CallTryLock(h, l)
    \/ \E h \in Handles, l \in Leases, c \in BOOLEAN : CallLock(h, l, c)
    \/ \E h \in Handles, c \in BOOLEAN : CallUnlock(h, c)
    \/ \E h \in Handles : Cancel(h)
    \/ \E h \in Handles : ReadAttrs(h)
    \/ \E h \in Handles : Read(h)
    \/ \E h \in Handles : ReadFails(h)
    \/ \E h \in Handles : ReadSwallowed(h)
    \/ \E h \in Handles : ReadCancelled(h)
    \/ \E h \in Handles : Put(h)
    \/ \E h \in Handles : PutFails(h)
    \/ \E h \in Handles : Attrs(h)
    \/ \E h \in Handles : AttrsFails(h)
    \/ \E h \in Handles : Retry(h)
    \/ \E h \in Handles : LockCancelled(h)
    \/ \E h \in Handles : Ack(h)
    \/ Tick

Spec == Init /\ [][Next]_vars

\* The start and the steps of the S3 adapter on a seeded key, every failing
\* read one the adapter returns (or that of a done ctx): the part of Spec
\* within which the steps of C11 and C12 are shown.
InitS3 == Init /\ provider = S3 /\ obj = Seeded

NextS3 ==
    \/ \E h \in Handles, l \in Leases : CallTryLock(h, l)
    \/ \E h \in Handles, l \in Leases, c \in BOOLEAN : CallLock(h, l, c)
    \/ \E h \in Handles, c \in BOOLEAN : CallUnlock(h, c)
    \/ \E h \in Handles : Cancel(h)
    \/ \E h \in Handles : Read(h)
    \/ \E h \in Handles : ReadFails(h)
    \/ \E h \in Handles : ReadCancelled(h)
    \/ \E h \in Handles : Put(h)
    \/ \E h \in Handles : PutFails(h)
    \/ \E h \in Handles : Retry(h)
    \/ \E h \in Handles : LockCancelled(h)
    \/ \E h \in Handles : Ack(h)
    \/ Tick

\* ------------------------------------------------------------------ claims
\* The lease of handle h is running: h believes it holds the lock and the
\* expiry it wrote has not passed.
LeaseRuns(h) == Believes(h) /\ ~(now > lease[h])

\* C1: at no instant are two handles both between the return of a
\* successful Lock (or TryLock) and their own next call of Unlock.
C1_MutualExclusion ==
    \A a, b \in Handles : a # b => ~(Believes(a) /\ Believes(b))

\* The step commits the write of an acquisition by handle h.
AcqCommit(h) == pc[h] = "put" /\ pc'[h] # "put" /\ op[h] # "Unlock" /\ obj' # obj

\* C2: the fence tokens of the acquisitions, in the order their writes are
\* committed, are strictly increasing (so no token is issued twice): each
\* committed acquisition carries a token above that of the one before.
C2_FenceMonotone ==
    [][\A h \in Handles : AcqCommit(h) => tok[h] > last]_vars

\* ------------------------------------------------------------------ C3
\* Holders that never release: a handle that has acquired makes no further
\* call, every other handle keeps calling Lock or TryLock, and the adapter's
\* round trips succeed.  Each handle that has a step to take takes one in the
\* end (its process runs, its round trips return).
CallRecovery(h) ==
    /\ ~Believes(h)
    /\ \E l \in Leases : CallTryLock(h, l) \/ CallLock(h, l, FALSE)

StepRecovery(h) ==
    \/ CallRecovery(h)
    \/ ReadAttrs(h)
    \/ Read(h)
    \/ Put(h)
    \/ Attrs(h)
    \/ Retry(h)
    \/ Ack(h)

NextRecovery == (\E h \in Handles : StepRecovery(h)) \/ Tick

SpecRecovery ==
    Init /\ [][NextRecovery]_vars /\ \A h \in Handles : WF_vars(StepRecovery(h))

\* The stored record, decoded.
Stored == IF obj.exists /\ Decodable(obj.data) THEN Unmarshal(obj.data) ELSE ZeroContent

\* The stored record names a as holder and its expiry has passed.
Abandoned(a) == Stored.ID = a /\ Stored.Expires # NoTime /\ now > Stored.Expires

\* C3: once the clock has passed the expiresAt of a holder that never unlocks,
\* a different handle that keeps calling Lock or TryLock ends up acquiring the
\* key, with nothing else done to the record.
C3_ExpiryRecovery ==
    \A a, b \in Handles :
        (a # b /\ Abandoned(a) /\ ~Believes(b))
            ~> (\E c \in Handles : c # a /\ Believes(c) /\ Stored.ID = c)

\* C3, witness: a handle has acquired the record another handle left behind.
C3_Witness ==
    \E a, c \in Handles :
        /\ a # c
        /\ Believes(a) /\ now > lease[a]
        /\ Believes(c) /\ Stored.ID = c /\ Stored.Fence >= 2

\* ------------------------------------------------------------------ C4
\* C4: when the record has passed to another handle (a's lease ran out and b
\* acquired), Unlock on a, whose read finds b's record, returns no error and
\* clears a's tag, or at most sends a write bound to a revision that is no
\* longer the stored one; and no write of an Unlock on a is committed over a
\* record that names b.
C4_StaleRelease ==
    [][\A a \in Handles :
        /\ (op[a] = "Unlock" /\ Read(a) /\ Stored.ID \notin {NoID, a})
              => /\ obj' = obj
                 /\ pc'[a] \in {"done", "put"}
                 /\ pc'[a] = "done" => (ret'[a].err = Nil /\ etag'[a] = NoETag)
                 /\ pc'[a] = "put" => curTag'[a] # ReadTag(obj)
        /\ (op[a] = "Unlock" /\ Put(a) /\ Stored.ID \notin {NoID, a})
              => /\ obj' = obj
                 /\ pc'[a] = "done"
                 /\ ret'[a].err = Nil /\ etag'[a] = NoETag]_vars

\* ------------------------------------------------------------------ C5
\* The stored record is held now, by the check of TryLock's transform.
HeldNow == obj.exists /\ Len(obj.data) > 0 /\ Held(Stored, now)

\* C5: a TryLock whose read finds the record held and not yet expired returns
\* (false, -1, nil) and writes nothing: the stored object is the same after
\* the step as before it and the call has committed no write.
C5_HeldNoWrite ==
    [][\A h \in Handles :
        (op[h] = "TryLock" /\ Read(h) /\ HeldNow)
            => /\ pc'[h] = "done"
               /\ ret'[h].op = "TryLock"
               /\ ~ret'[h].ok /\ ret'[h].token = NoToken /\ ret'[h].err = Nil
               /\ obj' = obj
               /\ nput'[h] = 0
               /\ etag'[h] = etag[h]]_vars

\* C5, witness: a TryLock has returned "lock held" on a record that another
\* handle holds, its lease still running.
C5_Witness ==
    \E h \in Handles :
        /\ pc[h] = "done" /\ ret[h].op = "TryLock" /\ ret[h].cause = ErrLockHeld
        /\ HeldNow /\ Stored.ID # h

\* ------------------------------------------------------------------ C6
Contention == {ErrConflict, ErrLockHeld}

\* C6: a TryLock or Unlock that AtomicUpdateObject ended with ErrConflict (or
\* that found the lock held) returns a nil error, TryLock with acquired =
\* false; the errors that reach a caller are never the contention errors.
C6_ContentionNoError ==
    \A h \in Handles :
        pc[h] \in {"done", "backoff"} =>
            /\ (ret[h].op # "Lock" /\ ret[h].cause \in Contention)
                   => (ret[h].err = Nil /\ ~ret[h].ok)
            /\ ret[h].err \in {Nil, ErrAdapter, ErrDecode, ErrCanceled}
            /\ ret[h].err \in {ErrAdapter, ErrDecode} => ret[h].cause = ret[h].err

\* C6, witness: of two handles racing TryLock one has won, and the loser,
\* whose write the store refused with ErrConflict, got (false, nil).
C6_Witness ==
    \E h, g \in Handles :
        /\ h # g /\ Believes(g) /\ Stored.ID = g
        /\ pc[h] = "done" /\ ret[h].op = "TryLock" /\ ret[h].cause = ErrConflict
        /\ ret[h].err = Nil /\ ~ret[h].ok

\* ------------------------------------------------------------------ C7
\* The steps of a call in progress: the adapter's requests are answered and
\* the retry loop's select returns.
Running(h) ==
    \/ ReadAttrs(h) \/ Read(h) \/ ReadFails(h) \/ ReadCancelled(h)
    \/ Put(h) \/ PutFails(h)
    \/ Attrs(h) \/ AttrsFails(h)
    \/ Retry(h) \/ LockCancelled(h)

StepCancel(h) ==
    \/ \E l \in Leases : CallTryLock(h, l)
    \/ \E l \in Leases, c \in BOOLEAN : CallLock(h, l, c)
    \/ Cancel(h)
    \/ Running(h)
    \/ Ack(h)

NextCancel == (\E h \in Handles : StepCancel(h)) \/ Tick

\* The key seeded with "{}", on either adapter.
InitSeeded == Init /\ obj = Seeded

\* Lock and TryLock on a seeded key, every call in progress kept running.
SpecCancel ==
    /\ InitSeeded
    /\ [][NextCancel]_vars
    /\ \A h \in Handles : WF_vars(Running(h))

\* Lock has returned the error of its cancelled ctx.
LockCanceled(h) ==
    pc[h] = "done" /\ ret[h].op = "Lock" /\ ~ret[h].ok /\ ret[h].err = ErrCanceled

\* C7: a Lock whose ctx is cancelled while it loops returns the ctx's error
\* eventually, and after the cancellation it starts no AtomicUpdateObject
\* call: a cancelled Lock never goes from the backoff to a new attempt.
C7_LockCancellation ==
    /\ \A h \in Handles : (op[h] = "Lock" /\ cancelled[h]) ~> LockCanceled(h)
    /\ [][\A h \in Handles :
            (op[h] = "Lock" /\ cancelled[h] /\ pc[h] = "backoff")
                => (pc'[h] = "done" \/ pc'[h] = pc[h])]_vars

\* C7, witness: a Lock that found the record held by the other handle, and
\* was cancelled in its backoff, has returned the ctx's error while the
\* other handle's lease still runs.
C7_Witness ==
    \E h \in Handles :
        /\ LockCanceled(h) /\ ret[h].cause = ErrLockHeld
        /\ HeldNow /\ Stored.ID # h

\* ------------------------------------------------------------------ C8
InAttempt == {"read", "body", "put", "attrs"}
Fatal == {ErrAdapter, ErrDecode, ErrCanceled}

\* An attempt of h's Lock ends in this step.
AttemptEnds(h) == op[h] = "Lock" /\ pc[h] \in InAttempt /\ pc'[h] \notin InAttempt

\* After an attempt of Lock: the loop goes on exactly when TryLock returned
\* (false, nil); otherwise Lock returns, with TryLock's error if it has one.
LoopsOnContentionOnly(h) ==
    AttemptEnds(h) =>
        /\ pc'[h] \in {"backoff", "done"}
        /\ pc'[h] = "backoff" <=> (~ret'[h].ok /\ ret'[h].err = Nil)
        /\ pc'[h] = "backoff" => ret'[h].cause \in Contention
        /\ pc'[h] = "done" =>
              /\ ret'[h].op = "Lock"
              /\ ret'[h].ok <=> ret'[h].err = Nil
              /\ ret'[h].err # Nil => (ret'[h].err \in Fatal /\ ret'[h].err = ret'[h].cause)

\* C8 as stated: Lock makes another attempt if and only if the previous one
\* returned (false, nil), so that a Lock in its backoff always goes on to the
\* next attempt; a fatal error ends Lock at once with that error.
C8_RetryIffContention ==
    [][\A h \in Handles :
        /\ LoopsOnContentionOnly(h)
        /\ (pc[h] = "backoff" /\ pc'[h] # "backoff") => pc'[h] = "read"]_vars

\* C8, amended: Lock makes another attempt if and only if the previous one
\* returned (false, nil) and ctx is not done before the backoff ends; with ctx
\* done it returns ctx's error instead; a fatal error ends Lock at once with
\* that error.
C8_RetryOnContention ==
    [][\A h \in Handles :
        /\ LoopsOnContentionOnly(h)
        /\ (pc[h] = "backoff" /\ pc'[h] # "backoff") =>
              IF cancelled[h]
                THEN pc'[h] = "done" /\ ret'[h].op = "Lock" /\ ret'[h].err = ErrCanceled
                ELSE pc'[h] = "read" /\ op'[h] = "Lock"]_vars

\* C8, witness: one Lock waits in its backoff after an attempt that found the
\* lock held, with its ctx live, and another Lock has ended with the adapter's
\* error.
C8_Witness ==
    \E h, g \in Handles :
        /\ h # g
        /\ pc[h] = "backoff" /\ ~cancelled[h] /\ ret[h].cause = ErrLockHeld
        /\ pc[g] = "done" /\ ret[g].op = "Lock" /\ ret[g].err = ErrAdapter

\* ------------------------------------------------------------------ C9
\* Unlock returns nil to h in this step.
UnlockReturnsNil(h) ==
    pc[h] # "done" /\ pc'[h] = "done" /\ ret'[h].op = "Unlock" /\ ret'[h].err = Nil

\* C9: Unlock on a handle without a version tag returns nil at once, with no
\* AtomicUpdateObject call and the stored object and the handle untouched;
\* and every Unlock that returns nil leaves the handle without a tag, so that
\* an Unlock right after it is this no-op.
C9_UnlockNoTagNoop ==
    [][\A h \in Handles :
        /\ (etag[h] = NoETag /\ \E c \in BOOLEAN : CallUnlock(h, c))
              => /\ pc'[h] = "done"
                 /\ ret'[h] = [op |-> "Unlock", ok |-> FALSE, token |-> NoToken,
                               err |-> Nil, cause |-> Nil]
                 /\ obj' = obj
                 /\ etag'[h] = NoETag
                 /\ nput'[h] = 0
        /\ UnlockReturnsNil(h) => etag'[h] = NoETag]_vars

\* C9, witness: an Unlock on a handle without a tag has returned nil without
\* a write, on a record that an earlier Unlock released.
C9_Witness ==
    \E h \in Handles :
        /\ pc[h] = "done" /\ ret[h].op = "Unlock"
        /\ ret[h].err = Nil /\ ret[h].cause = Nil /\ nput[h] = 0
        /\ etag[h] = NoETag
        /\ Stored.Fence >= 1 /\ Stored.ID = NoID /\ Stored.Expires = NoTime

\* ----------------------------------------------------------------- C10
\* The write of h's Unlock is committed in this step.
ReleaseCommit(h) == op[h] = "Unlock" /\ Put(h) /\ obj' # obj

\* The record the store holds after this step.
StoredNext ==
    IF obj'.exists /\ Decodable(obj'.data) THEN Unmarshal(obj'.data) ELSE ZeroContent

\* C10: the write of an Unlock replaces the revision whose tag the handle
\* holds by a record without holder and expiry and with the same fence,
\* which any handle's TryLock would acquire at once; and an Unlock whose
\* AtomicUpdateObject call returned no error leaves the handle without a tag.
C10_UnlockClears ==
    [][\A h \in Handles :
        /\ ReleaseCommit(h)
              => /\ ReadTag(obj) = etag[h]
                 /\ StoredNext.ID = NoID
                 /\ StoredNext.Expires = NoTime
                 /\ StoredNext.Fence = Stored.Fence
                 /\ obj'.data = Marshal(StoredNext)
                 /\ \A g \in Handles, l \in Leases :
                       TryLockFn(g, obj'.data, now, l).err = Nil
        /\ (UnlockReturnsNil(h) /\ ret'[h].cause = Nil) => etag'[h] = NoETag]_vars

\* C10, witness: an Unlock has written the release of a record that had been
\* acquired, and has returned nil with the handle's tag cleared.
C10_Witness ==
    \E h \in Handles :
        /\ pc[h] = "done" /\ ret[h].op = "Unlock"
        /\ ret[h].err = Nil /\ ret[h].cause = Nil /\ nput[h] = 1
        /\ etag[h] = NoETag
        /\ Stored.Fence >= 1 /\ Stored.ID = NoID /\ Stored.Expires = NoTime

\* ----------------------------------------------------------------- C11
\* The S3 adapter on a key that holds no object yet.
InitS3Absent == Init /\ provider = S3 /\ obj = Absent

\* The S3 adapter with every read answered by the store, first acquisitions
\* racing on the absent key.
SpecS3Absent == InitS3Absent /\ [][NextS3]_vars

\* The write of handle h, of any call, is committed in this step.
Commit(h) == Put(h) /\ obj' # obj

\* C11: a write that follows a read which found no object is committed only
\* while the object is still absent, so that of two calls that both read the
\* key as absent only the first to write succeeds.
C11_AbsentConditional ==
    [][\A h \in Handles : (Commit(h) /\ curTag[h] = NoETag) => ~obj.exists]_vars

\* ----------------------------------------------------------------- C12
\* The S3 adapter on the seeded key, reads that fail in transit included.
NextS3Read == NextS3 \/ \E h \in Handles : ReadSwallowed(h)

SpecS3Read == InitS3 /\ [][NextS3Read]_vars

\* The read of h's AtomicUpdateObject call fails in this step, for another
\* reason than "no such object": the adapter returns the error, or lets it
\* through.  (A read that answers, with a record or with "no such object",
\* leaves readErr FALSE.)
ReadFailure(h) == ReadFails(h) \/ ReadSwallowed(h) \/ ReadCancelled(h)

\* C12: a read that fails ends AtomicUpdateObject with the adapter's error,
\* the transform not run and nothing handed to the write; and no write is
\* committed by an attempt whose read has failed.
C12_ReadFailureNoWrite ==
    [][\A h \in Handles :
        /\ ReadFailure(h)
              => /\ pc'[h] = "done"
                 /\ ret'[h].err \in {ErrAdapter, ErrCanceled}
                 /\ ret'[h].cause = ret'[h].err
        /\ Commit(h) => ~readErr[h]]_vars

\* ----------------------------------------------------------------- C13
\* The handles whose acquisition is neither released nor expired.
LeaseHolders == {h \in Handles : LeaseRuns(h)}

\* C13: in every reachable state at most one handle has an acquisition that
\* it has not released and whose lease has not expired, and no acquisition
\* of another handle is committed while such a lease runs.
C13_LeaseBoundedExclusion ==
    [][/\ Cardinality(LeaseHolders) <= 1
       /\ \A h \in Handles : AcqCommit(h) => LeaseHolders \subseteq {h}]_vars

\* ----------------------------------------------------------------- C14
\* The read of a TryLock (alone or within Lock) by h answers in this step
\* with a record that decodes.
ReadsRecord(h) ==
    op[h] \in {"TryLock", "Lock"} /\ Read(h) /\ obj.exists /\ Decodable(obj.data)

\* The transform of h refuses in this step: errLockHeld, nothing to write.
Refuses(h) ==
    /\ pc'[h] \in {"done", "backoff"}
    /\ ret'[h].cause = ErrLockHeld /\ ~ret'[h].ok /\ ret'[h].err = Nil
    /\ obj' = obj

\* The transform of h goes on in this step to write its acquisition.
Proceeds(h) ==
    /\ pc'[h] = "put"
    /\ buf'[h] = Marshal([ID |-> h, Expires |-> now + length[h],
                          Fence |-> Stored.Fence + 1])
    /\ tok'[h] = Stored.Fence + 1

\* C14 as stated: TryLock refuses exactly when the record has a holder and an
\* expiresAt strictly after the current time, and proceeds to acquire in
\* every other case.
C14_HeldStrictlyFuture ==
    [][\A h \in Handles :
        ReadsRecord(h) =>
            IF Stored.ID # NoID /\ Stored.Expires # NoTime /\ now < Stored.Expires
              THEN Refuses(h)
              ELSE Proceeds(h)]_vars

\* C14, amended: TryLock refuses exactly when the record carries an expiresAt
\* that the current time has not passed (now <= expiresAt, the holder not
\* looked at), and proceeds to acquire in every other case.
C14_HeldUntilExpiry ==
    [][\A h \in Handles :
        ReadsRecord(h) =>
            IF Stored.Expires # NoTime /\ now <= Stored.Expires
              THEN Refuses(h)
              ELSE Proceeds(h)]_vars

\* C14, witness: a TryLock has been refused at the very instant the record
\* expires.
C14_Witness ==
    \E h \in Handles :
        /\ pc[h] = "done" /\ ret[h].op = "TryLock" /\ ret[h].cause = ErrLockHeld
        /\ Stored.ID # NoID /\ Stored.Expires = now

\* ----------------------------------------------------------------- C15
\* A TryLock or Lock of h returns in this step.
AcqReturns(h) ==
    pc[h] # "done" /\ pc'[h] = "done" /\ ret'[h].op \in {"TryLock", "Lock"}

\* C15: the stored fence counts the successful acquisitions.  It changes
\* only when an acquisition is written, which raises it by exactly 1; the
\* call that wrote it returns acquired with the fence it wrote as its token,
\* and a call that returns acquired has written exactly once; failed
\* attempts and Unlock leave the fence as it is.
C15_FenceCountsAcquisitions ==
    [][/\ StoredNext.Fence # Stored.Fence => \E h \in Handles : AcqCommit(h)
       /\ \A h \in Handles :
            /\ AcqCommit(h) => /\ StoredNext.Fence = Stored.Fence + 1
                               /\ tok[h] = StoredNext.Fence
            /\ AcqReturns(h) => /\ ret'[h].ok <=> nput'[h] = 1
                                /\ ret'[h].ok => ret'[h].token = tok[h]
                                /\ nput'[h] <= 1]_vars

\* ----------------------------------------------------------------- C16
\* For a TryLock or an Unlock in progress: its one AtomicUpdateObject call
\* moves forward and, when it ends, the call returns.
SingleAttempt(h) ==
    (op[h] \in {"TryLock", "Unlock"} /\ pc[h] \in InAttempt) =>
        /\ pc'[h] \in InAttempt \cup {"done"}
        /\ pc'[h] = "read" => pc[h] = "read"

\* C16 as stated: every TryLock call, and every Unlock call on a handle with
\* a tag, starts an AtomicUpdateObject call, and returns when that call ends.
C16_OneRoundTrip ==
    [][\A h \in Handles :
        /\ (\E l \in Leases : CallTryLock(h, l)) => pc'[h] = "read"
        /\ (etag[h] # NoETag /\ \E c \in BOOLEAN : CallUnlock(h, c)) => pc'[h] = "read"
        /\ SingleAttempt(h)]_vars

\* C16, amended: as stated, except that an Unlock called with a ctx that is
\* done already makes no AtomicUpdateObject call: it returns ctx's error and
\* leaves the stored object and the handle's tag as they are.
C16_OneRoundTripUnlessDone ==
    [][\A h \in Handles :
        /\ (\E l \in Leases : CallTryLock(h, l)) => pc'[h] = "read"
        /\ \A c \in BOOLEAN :
            (etag[h] # NoETag /\ CallUnlock(h, c)) =>
                IF c THEN /\ pc'[h] = "done"
                          /\ ret'[h].op = "Unlock" /\ ret'[h].err = ErrCanceled
                          /\ obj' = obj /\ etag'[h] = etag[h]
                     ELSE pc'[h] = "read"
        /\ SingleAttempt(h)]_vars

\* C16, witness: an Unlock on a handle with a tag has returned the adapter's
\* error after its one AtomicUpdateObject call, the tag kept.
C16_Witness ==
    \E h \in Handles :
        /\ pc[h] = "done" /\ ret[h].op = "Unlock" /\ ret[h].cause = ErrAdapter
        /\ ret[h].err = ErrAdapter /\ etag[h] # NoETag

\* ----------------------------------------------------------------- C17
\* The AtomicUpdateObject call of h's Unlock fails in this step with an
\* error other than ErrConflict.
UnlockFails(h) ==
    /\ op[h] = "Unlock" /\ pc[h] \in InAttempt /\ pc'[h] = "done"
    /\ ret'[h].cause \notin {Nil, ErrConflict}

\* C17: an Unlock whose adapter call fails with an error other than
\* ErrConflict returns that error, has written nothing to the stored object,
\* and leaves the handle its tag.
C17_UnlockFailureKeeps ==
    [][\A h \in Handles :
        UnlockFails(h) =>
            /\ ret'[h].op = "Unlock"
            /\ ret'[h].err = ret'[h].cause
            /\ etag'[h] = etag[h] /\ etag[h] # NoETag
            /\ obj' = obj
            /\ nput'[h] = 0]_vars

\* ----------------------------------------------------------------- C18
\* Another program writes bytes to the key that are no lock record.
Garble ==
    /\ obj.exists
    /\ obj.ver < MaxWrites
    /\ obj' = Written(obj, CorruptBytes)
    /\ UNCHANGED <<readErr, now, provider, pc, op, etag, length, curTag, buf, tok,
                   cancelled, ret, lease, nput, last>>

StepCorrupt(h) ==
    \/ \E l \in Leases : CallTryLock(h, l) \/ CallLock(h, l, FALSE)
    \/ CallUnlock(h, FALSE)
    \/ ReadAttrs(h) \/ Read(h) \/ Put(h) \/ Attrs(h) \/ Retry(h)
    \/ Ack(h)

NextCorrupt == (\E h \in Handles : StepCorrupt(h)) \/ Garble \/ Tick

\* The handles on a seeded key that another program may overwrite, every
\* adapter request answered by the store.
SpecCorrupt == InitSeeded /\ [][NextCorrupt]_vars

\* The read of h's call answers in this step with the corrupt content, and
\* for Unlock with the tag the handle holds.
ReadsCorrupt(h) ==
    /\ Read(h)
    /\ obj.exists /\ obj.data = CorruptBytes
    /\ op[h] = "Unlock" => TagRead(h) = etag[h]

\* C18: a TryLock, a Lock or an Unlock (on a handle whose tag matches) that
\* reads content which does not decode returns the decoding error at once,
\* Lock without another attempt, and writes nothing: the stored object and
\* the handle's tag stay as they are.
C18_DecodeFailureNoWrite ==
    [][\A h \in Handles :
        ReadsCorrupt(h) =>
            /\ pc'[h] = "done"
            /\ ret'[h].op = op[h]
            /\ ~ret'[h].ok /\ ret'[h].err = ErrDecode
            /\ obj' = obj
            /\ nput'[h] = 0
            /\ etag'[h] = etag[h]]_vars

\* C18, witness: on corrupt content a Lock has returned the decoding error,
\* and so has the Unlock of a handle whose tag is that of the corrupt
\* revision.
C18_Witness ==
    \E h, g \in Handles :
        /\ obj.data = CorruptBytes
        /\ pc[h] = "done" /\ ret[h].op = "Lock" /\ ret[h].err = ErrDecode
        /\ pc[g] = "done" /\ ret[g].op = "Unlock" /\ ret[g].err = ErrDecode
        /\ etag[g] = ReadTag(obj)

\* ----------------------------------------------------------------- C19
\* The tag of the revision that the write of h's call in progress has made,
\* seen from the step in which the call returns: the revision PutObject
\* writes in that step (S3), or the one that followed the revision read (GCS,
\* whose write is committed only on the generation read).
OwnRevision(h) == IF pc[h] = "put" THEN obj'.ver ELSE curTag[h] + 1

\* C19: a TryLock or Lock that returns acquired leaves on the handle the tag
\* of the revision it wrote itself; and the transform of Unlock finds its tag
\* equal to the stored one only on a record that names this handle.
C19_TagOfOwnWrite ==
    [][\A h \in Handles :
        /\ (AcqReturns(h) /\ ret'[h].ok) => etag'[h] = OwnRevision(h)
        /\ (op[h] = "Unlock" /\ Read(h) /\ TagRead(h) = etag[h])
              => Stored.ID = h]_vars

\* ----------------------------------------------------------------- C20
\* C20: a TryLock that returns not acquired or an error, and a Lock that
\* returns an error, has committed no write, and the handle's tag is as it
\* was.
C20_NoWriteWithoutAcquisition ==
    [][\A h \in Handles :
        (AcqReturns(h) /\ ~ret'[h].ok) =>
            /\ nput'[h] = 0
            /\ etag'[h] = etag[h]]_vars

\* ----------------------------------------------------------------- C21
\* The read of h's TryLock answers in this step with the record of h's own
\* acquisition.
ReadsOwnRecord(h) ==
    /\ op[h] = "TryLock" /\ Read(h)
    /\ obj.exists /\ Stored.ID = h /\ Stored.Expires # NoTime

\* C21: a TryLock by the handle that holds the lock is refused while its own
\* lease runs: (false, -1, nil), the stored object and the handle's tag as
\* they were; once its lease has expired the same TryLock goes on to write a
\* new acquisition, whose token is above the fence of the one it replaces.
C21_NotReentrant ==
    [][\A h \in Handles :
        ReadsOwnRecord(h) =>
            IF now <= Stored.Expires
              THEN /\ Refuses(h)
                   /\ pc'[h] = "done"
                   /\ ret'[h].token = NoToken
                   /\ etag'[h] = etag[h]
                   /\ nput'[h] = 0
              ELSE /\ Proceeds(h)
                   /\ tok'[h] > Stored.Fence
                   /\ etag'[h] = etag[h]]_vars

\* C21, witness: a handle that has not released its expired acquisition (its
\* tag is still the tag of its own record) is on its way to write the next
\* one, with a higher token.
C21_Witness ==
    \E h \in Handles :
        /\ pc[h] = "put" /\ op[h] = "TryLock"
        /\ obj.exists /\ Stored.ID = h /\ now > Stored.Expires
        /\ etag[h] = ReadTag(obj) /\ curTag[h] = etag[h]
        /\ Stored.Fence >= 1 /\ tok[h] = Stored.Fence + 1

\* ----------------------------------------------------------------- C22
\* C22: every stored record that Lock, TryLock and Unlock produce from an
\* absent or an empty record names a holder exactly when it carries an
\* expiry, so that the held check on the expiry alone agrees with the check
\* on holder and expiry.
C22_RecordShape ==
    /\ Stored.ID # NoID <=> Stored.Expires # NoTime
    /\ obj.exists => obj.data = Marshal(Stored)
    /\ \A t \in 0..MaxTime :
          Held(Stored, t) <=>
              (Stored.ID # NoID /\ Stored.Expires # NoTime /\ t <= Stored.Expires)

\* C22, witness: the record of a release has been acquired again: the stored
\* record names a holder with an expiry and is at least the second
\* acquisition, and a handle has released before.
C22_Witness ==
    \E h, g \in Handles :
        /\ Stored.ID = h /\ Stored.Expires # NoTime /\ Stored.Fence >= 2 /\ Believes(h)
        /\ g # h /\ pc[g] = "done" /\ ret[g].op = "Unlock" /\ nput[g] = 1

====
